---------------------------- MODULE Spec2Model ----------------------------
(***************************************************************************)
(* A model of the page workspace of src/app.py: the process-wide DATA      *)
(* mapping and its JSON file, the tree operations add_page, update_page    *)
(* and delete_page, the request handlers that call them, and the in-memory *)
(* session store that guards the handlers.                                 *)
(*                                                                         *)
(* Conventions.                                                            *)
(*  - A Python str is a sequence of one-character strings, so that strip() *)
(*    and the empty-string tests are computed and not assumed.             *)
(*  - A value of str(uuid.uuid4()), a page id or a session id, is the index *)
(*    of the call that made it: 1, 2, ..  A uuid is never issued twice, so  *)
(*    the counter only grows.  The dict DATA is a function on the set of   *)
(*    its keys; its insertion order is the creation order, i.e. ascending  *)
(*    ids.                                                                 *)
(*  - Python's None and a missing form field are NoneId (for ids) and      *)
(*    Missing (for text fields).                                           *)
(***************************************************************************)
EXTENDS Integers, Sequences, FiniteSets, TLC

\* ---------------------------------------------------------------- bounds
\* What one run may create: the uuid4 values issued (page ids and session
\* ids) plus the rows stored.
MaxIds == 4
\* Sessions alive at a time.
MaxSessions == 1
\* Lines of a page's content.
MaxLines == 3
\* Handlers suspended at a time.
MaxInFlight == 1

\* The interpreter's recursion limit (sys.getrecursionlimit(), 1000 frames
\* by default), in the proportion that matters: pages can be nested deeper
\* than it, as a client can nest more than 1000 pages.
RecursionLimit == MaxIds - 2

\* ------------------------------------------------------------- constants
\* parent_id: Optional[str] = None; also what an absent cookie reads as.
NoneId == 0

\* A text form field that the request body does not carry.
Missing == <<"<missing>">>

\* An id string that uuid4 never returned in this run.
NeverIssued == MaxIds + 1

\* ------------------------------------------------------------------ text
Range(s) == {s[i] : i \in 1..Len(s)}

\* str.strip() with no argument removes leading and trailing whitespace.
Whitespace == {" "}

RECURSIVE lstrip(_)
lstrip(s) ==
    IF s # <<>> /\ Head(s) \in Whitespace THEN lstrip(Tail(s)) ELSE s

RECURSIVE rstrip(_)
rstrip(s) ==
    IF s # <<>> /\ s[Len(s)] \in Whitespace
    THEN rstrip(SubSeq(s, 1, Len(s) - 1))
    ELSE s

strip(s) == rstrip(lstrip(s))

\* Literals of the program.
Untitled == <<"U", "n", "t", "i", "t", "l", "e", "d">>
Home == <<"H", "o", "m", "e">>
Welcome == <<"W", "e", "l", "c", "o", "m", "e">>

\* `title.strip()` without `or "Untitled"`.
StripOnlyTitle(title) == strip(title)

\* `title.strip() or "Untitled"`: an empty str is falsy.
title_or_default(title) ==
    IF strip(title) = <<>> THEN Untitled ELSE strip(title)

\* list.remove(x): drops the first occurrence only.
RECURSIVE list_remove(_, _)
list_remove(s, x) ==
    IF s = <<>> THEN <<>>
    ELSE IF Head(s) = x THEN Tail(s)
    ELSE <<Head(s)>> \o list_remove(Tail(s), x)

\* The keys of a dict in iteration order (ascending creation index).
RECURSIVE SortedSeq(_)
SortedSeq(S) ==
    IF S = {} THEN <<>>
    ELSE LET m == CHOOSE x \in S : \A y \in S : x <= y
         IN <<m>> \o SortedSeq(S \ {m})

\* ------------------------------------------------------------ persistence
\* The file pages.json is absent, holds bytes that are not UTF-8, holds text
\* that is not JSON, or holds a JSON object: the list of its members
\* <<key, value>> in the order they were written.
NoFile == [kind |-> "absent", doc |-> <<>>]
BadUtf8 == [kind |-> "badutf8", doc |-> <<>>]
BadJson == [kind |-> "badjson", doc |-> <<>>]

\* json.dump of a dict: one member per key, in iteration order.
json_dump(data) ==
    LET keys == SortedSeq(DOMAIN data)
    IN [i \in 1..Len(keys) |-> <<keys[i], data[keys[i]]>>]

\* json.load of an object: a dict of its members (a repeated key keeps the
\* last value).
json_load(doc) ==
    [k \in {doc[i][1] : i \in 1..Len(doc)} |->
        doc[CHOOSE i \in 1..Len(doc) :
                /\ doc[i][1] = k
                /\ \A j \in 1..Len(doc) : doc[j][1] = k => j <= i][2]]

\* save_data: open(DATA_FILE, "w") and json.dump: the file is replaced.
save_data(file, data) == [kind |-> "json", doc |-> json_dump(data)]

\* Every snapshot of `saves` written in order, starting from `file`.
RECURSIVE save_all(_, _)
save_all(file, saves) ==
    IF saves = <<>> THEN file
    ELSE save_all(save_data(file, Head(saves)), Tail(saves))

\* The root page load_data makes when it starts fresh.
DefaultData(root_id) ==
    root_id :> [title |-> Home, content |-> Welcome,
                children |-> <<>>, database |-> <<>>]

\* load_data: the file's dict when it exists and parses; a fresh root,
\* saved at once, when it is absent or json raises JSONDecodeError.  Reading
\* bytes that are not UTF-8 raises UnicodeDecodeError, which is not a
\* JSONDecodeError and leaves load_data.
load_data(file, root_id) ==
    CASE file.kind = "json" ->
            [raised |-> "none", data |-> json_load(file.doc), file |-> file,
             fresh |-> FALSE]
      [] file.kind = "badutf8" ->
            [raised |-> "UnicodeDecodeError", data |-> <<>>, file |-> file,
             fresh |-> FALSE]
      [] OTHER ->
            [raised |-> "none", data |-> DefaultData(root_id),
             file |-> save_data(file, DefaultData(root_id)), fresh |-> TRUE]

\* ------------------------------------------------------- tree operations
\* Each operation returns the new dict and the snapshots it saved, in order.

NewPage(title) ==
    [title |-> title_or_default(title), content |-> <<>>,
     children |-> <<>>, database |-> <<>>]

\* add_page putting the new id first in the parent's children.
AddPagePrepend(data, page_id, title, parent_id) ==
    LET added == (page_id :> NewPage(title)) @@ data
        linked == IF parent_id # NoneId /\ parent_id \in DOMAIN added
                  THEN [added EXCEPT ![parent_id].children =
                                         <<page_id>> \o @]
                  ELSE added
    IN [data |-> linked, saves |-> <<linked>>]

\* add_page appending the new id to the parent's children twice.
AddPageLinkTwice(data, page_id, title, parent_id) ==
    LET added == (page_id :> NewPage(title)) @@ data
        linked == IF parent_id # NoneId /\ parent_id \in DOMAIN added
                  THEN [added EXCEPT ![parent_id].children =
                                         @ \o <<page_id, page_id>>]
                  ELSE added
    IN [data |-> linked, saves |-> <<linked>>]

\* add_page
add_page(data, page_id, title, parent_id) ==
    LET added == (page_id :> NewPage(title)) @@ data
        linked == IF parent_id # NoneId /\ parent_id \in DOMAIN added
                  THEN [added EXCEPT ![parent_id].children =
                                         Append(@, page_id)]
                  ELSE added
    IN [data |-> linked, saves |-> <<linked>>]

\* update_page without its call of save_data.
UpdatePageNoSave(data, page_id, title, content) ==
    IF page_id \in DOMAIN data
    THEN [data |-> [data EXCEPT ![page_id].title = title_or_default(title),
                                ![page_id].content = content],
          saves |-> <<>>]
    ELSE [data |-> data, saves |-> <<>>]

\* update_page without its test `if page_id in DATA`, storing the page
\* under the id whether it is known or not.
UpdatePageUpsert(data, page_id, title, content) ==
    LET page == IF page_id \in DOMAIN data THEN data[page_id]
                ELSE NewPage(title)
        updated == (page_id :> [page EXCEPT !.title = title_or_default(title),
                                            !.content = content]) @@ data
    IN [data |-> updated, saves |-> <<updated>>]

\* update_page
update_page(data, page_id, title, content) ==
    IF page_id \in DOMAIN data
    THEN LET updated ==
                 [data EXCEPT ![page_id].title = title_or_default(title),
                              ![page_id].content = content]
         IN [data |-> updated, saves |-> <<updated>>]
    ELSE [data |-> data, saves |-> <<>>]

\* The loop `for pid, pdata in DATA.items()` of delete_page.
scrub(data, page_id) ==
    [pid \in DOMAIN data |->
        IF page_id \in Range(data[pid].children)
        THEN [data[pid] EXCEPT !.children = list_remove(@, page_id)]
        ELSE data[pid]]

pop(data, page_id) == [pid \in DOMAIN data \ {page_id} |-> data[pid]]

RECURSIVE delete_page(_, _)
RECURSIVE delete_children(_, _)

\* `for child_id in list(DATA[page_id]["children"]): delete_page(child_id)`
\* over the copy of the list taken before the loop.
delete_children(acc, children) ==
    IF children = <<>> THEN acc
    ELSE LET r == delete_page(acc.data, Head(children))
         IN delete_children([data |-> r.data, saves |-> acc.saves \o r.saves],
                            Tail(children))

\* delete_page without the loop over the children.
DeletePageKeepChildren(data, page_id) ==
    IF page_id \notin DOMAIN data
    THEN [data |-> data, saves |-> <<>>]
    ELSE [data |-> pop(scrub(data, page_id), page_id),
          saves |-> <<pop(scrub(data, page_id), page_id)>>]

\* delete_page without the loop that removes the id from children lists.
DeletePageNoScrub(data, page_id) ==
    IF page_id \notin DOMAIN data
    THEN [data |-> data, saves |-> <<>>]
    ELSE LET sub == delete_children([data |-> data, saves |-> <<>>],
                                    data[page_id].children)
             gone == pop(sub.data, page_id)
         IN [data |-> gone, saves |-> Append(sub.saves, gone)]

\* delete_page popping and saving before it takes the id out of the
\* children lists, and saving again.
DeletePageScrubLate(data, page_id) ==
    IF page_id \notin DOMAIN data
    THEN [data |-> data, saves |-> <<>>]
    ELSE LET sub == delete_children([data |-> data, saves |-> <<>>],
                                    data[page_id].children)
             popped == pop(sub.data, page_id)
             gone == scrub(popped, page_id)
         IN [data |-> gone, saves |-> sub.saves \o <<popped, gone>>]

\* delete_page: the children first, each with its own save_data.
delete_page(data, page_id) ==
    IF page_id \notin DOMAIN data
    THEN [data |-> data, saves |-> <<>>]
    ELSE LET sub == delete_children([data |-> data, saves |-> <<>>],
                                    data[page_id].children)
             gone == pop(scrub(sub.data, page_id), page_id)
         IN [data |-> gone, saves |-> Append(sub.saves, gone)]


\* ------------------------------------------------------------ page tree
\* get_page_tree.build_node: the node of a page, with the nodes of its
\* children in the order of the list.
RECURSIVE build_node(_, _)
build_node(data, pid) ==
    [id |-> pid, title |-> data[pid].title,
     children |-> [i \in 1..Len(data[pid].children) |->
                       build_node(data, data[pid].children[i])]]

\* get_page_tree taking every page for a root.
GetPageTreeEveryPage(data) ==
    LET root_ids == SortedSeq(DOMAIN data)
    IN [i \in 1..Len(root_ids) |-> build_node(data, root_ids[i])]

\* get_page_tree: the nodes of the pages that are nobody's child, in the
\* order of the dict.
get_page_tree(data) ==
    LET all_children == UNION {Range(data[p].children) : p \in DOMAIN data}
        root_ids == SortedSeq(DOMAIN data \ all_children)
    IN [i \in 1..Len(root_ids) |-> build_node(data, root_ids[i])]

\* ---------------------------------------------------------------- search
lower(s) == [i \in 1..Len(s) |-> IF s[i] = "A" THEN "a" ELSE s[i]]

\* `q in text` for strings: q occurs as a contiguous run.
contains(text, q) ==
    \E i \in 0..(Len(text) - Len(q)) : SubSeq(text, i + 1, i + Len(q)) = q

search_pages(data, query) ==
    SelectSeq(SortedSeq(DOMAIN data),
              LAMBDA pid : \/ contains(lower(data[pid].title), lower(query))
                           \/ contains(lower(data[pid].content), lower(query)))

\* --------------------------------------------------------------- render
\* A markup literal of the code and an escaped character are kept as one
\* element of the str; "\n" is the newline.
startswith(s, prefix) ==
    Len(s) >= Len(prefix) /\ SubSeq(s, 1, Len(prefix)) = prefix

\* raw.split("\n"): always at least one line.
RECURSIVE split(_)
split(raw) ==
    IF "\n" \notin Range(raw) THEN <<raw>>
    ELSE LET i == CHOOSE k \in 1..Len(raw) :
                      raw[k] = "\n" /\ \A j \in 1..(k - 1) : raw[j] # "\n"
         IN <<SubSeq(raw, 1, i - 1)>> \o split(SubSeq(raw, i + 1, Len(raw)))

\* "\n".join(parts)
RECURSIVE join(_)
join(parts) ==
    IF parts = <<>> THEN <<>>
    ELSE IF Len(parts) = 1 THEN parts[1]
    ELSE parts[1] \o <<"\n">> \o join(Tail(parts))

\* html_escape: & first, then < > " '
html_escape(text) ==
    [i \in 1..Len(text) |->
        CASE text[i] = "&" -> "&amp;"
          [] text[i] = "<" -> "&lt;"
          [] text[i] = ">" -> "&gt;"
          [] text[i] = "\"" -> "&quot;"
          [] text[i] = "'" -> "&#39;"
          [] OTHER -> text[i]]

\* The grave accent, written by its code point.
Backtick == "U+0060"
Backticks == <<Backtick, Backtick, Backtick>>
\* The text the patterns r"^- \[ \] (.*)" and r"^- \[x\] (.*)" (IGNORECASE)
\* must find at the start of the line; the group is what follows.
Unchecked == <<"-", " ", "[", " ", "]", " ">>
CheckedLower == <<"-", " ", "[", "x", "]", " ">>
CheckedUpper == <<"-", " ", "[", "X", "]", " ">>
after(line, prefix) == SubSeq(line, Len(prefix) + 1, Len(line))

\* The loop body looking for check boxes before it looks at in_code.
RenderStepBoxesFirst(in_code, line) ==
    IF startswith(strip(line), Backticks)
    THEN [in_code |-> ~in_code,
          part |-> IF ~in_code THEN <<"<pre><code>">>
                   ELSE <<"</code></pre>">>]
    ELSE IF startswith(line, Unchecked)
    THEN [in_code |-> in_code,
          part |-> <<"<label><input type=\"checkbox\" disabled> ">>
                      \o html_escape(after(line, Unchecked))
                      \o <<"</label><br>">>]
    ELSE IF startswith(line, CheckedLower) \/ startswith(line, CheckedUpper)
    THEN [in_code |-> in_code,
          part |-> <<"<label><input type=\"checkbox\" checked disabled> ">>
                      \o html_escape(after(line, CheckedLower))
                      \o <<"</label><br>">>]
    ELSE IF in_code
    THEN [in_code |-> in_code, part |-> Append(html_escape(line), "\n")]
    ELSE [in_code |-> in_code,
          part |-> <<"<p>">> \o html_escape(line) \o <<"</p>">>]

\* One pass of the loop of render_content over `line`: the new in_code and
\* the str appended to html_parts.
render_step(in_code, line) ==
    IF startswith(strip(line), Backticks)
    THEN [in_code |-> ~in_code,
          part |-> IF ~in_code THEN <<"<pre><code>">>
                   ELSE <<"</code></pre>">>]
    ELSE IF in_code
    THEN [in_code |-> in_code, part |-> Append(html_escape(line), "\n")]
    ELSE IF startswith(line, Unchecked)
    THEN [in_code |-> in_code,
          part |-> <<"<label><input type=\"checkbox\" disabled> ">>
                      \o html_escape(after(line, Unchecked))
                      \o <<"</label><br>">>]
    ELSE IF startswith(line, CheckedLower) \/ startswith(line, CheckedUpper)
    THEN [in_code |-> in_code,
          part |-> <<"<label><input type=\"checkbox\" checked disabled> ">>
                      \o html_escape(after(line, CheckedLower))
                      \o <<"</label><br>">>]
    ELSE [in_code |-> in_code,
          part |-> <<"<p>">> \o html_escape(line) \o <<"</p>">>]

\* The loop over the lines left, from the given in_code and html_parts.
RECURSIVE render_loop(_, _, _)
render_loop(lines, in_code, html_parts) ==
    IF lines = <<>> THEN html_parts
    ELSE LET r == render_step(in_code, Head(lines))
         IN render_loop(Tail(lines), r.in_code, Append(html_parts, r.part))

\* render_content
render_content(raw) == join(render_loop(split(raw), FALSE, <<>>))

\* ----------------------------------------------------------------- state
VARIABLES
    up,        \* the module is imported and serving requests
    DATA,      \* the pages dict
    file,      \* DATA_FILE on disk
    SESSIONS,  \* the session store: session id -> user info
    nextId,    \* uuid4 values issued so far, plus one
    last,      \* the last request handled: its handler and its response
    pending,   \* the requests suspended at `await request.body()`
    call,      \* the frames of a running delete_page or get_page_tree
    render     \* the locals of a running render_content

vars == <<up, DATA, file, SESSIONS, nextId, last, pending, call, render>>

\* The locals of the functions that are not running.
NoCall == [mode |-> "none", at |-> "none", start |-> <<>>,
           target |-> NoneId, stack |-> <<>>, roots |-> <<>>,
           removed |-> 0, saved |-> 0, nodes |-> 0, error |-> "none"]
NoRender == [at |-> "none", lines |-> <<>>, in_code |-> FALSE,
             html_parts |-> <<>>, result |-> <<>>]

\* ------------------------------------------------------------- responses
\* A response: its status, its target (a route pattern or a template) and
\* the uuid it carries, in the URL or in the session_id cookie it sets.
\* `next` is the query parameter of a redirect to the login page, kept as
\* the route pattern, and empty in every other response.
Redirect(path, id) ==
    [status |-> 302, path |-> path, id |-> id, next |-> ""]
Template(name) ==
    [status |-> 200, path |-> name, id |-> NoneId, next |-> ""]

\* The record of a handled request: the handler, the number of save_data
\* calls it made, the exception that left it, and its response.
Handled(op, saves, resp) ==
    [op |-> op, saves |-> saves, raised |-> "none", resp |-> resp]

\* require_login: f"/login?next={request.url.path}"
LoginRedirect(path) ==
    [status |-> 302, path |-> "/login", id |-> NoneId, next |-> path]

\* ------------------------------------------------------------ form bodies
\* Field names of the forms.
TITLE == <<"t", "i", "t", "l", "e">>
CONTENT == <<"c", "o", "n", "t", "e", "n", "t">>
NEW_COL == <<"n", "e", "w", "_", "c", "o", "l">>
NEW_VAL == <<"n", "e", "w", "_", "v", "a", "l">>
Status == <<"S">>
Owner == <<"O">>

\* urllib.parse.parse_qs: fields with a blank value are left out.
parse_qs(body) == [k \in {f \in DOMAIN body : body[f] # <<>>} |-> body[k]]

\* form.get(key, [default])[0]
form_get(form, key, default) ==
    IF key \in DOMAIN form THEN form[key] ELSE default

\* -------------------------------------------------------------- sessions
\* get_current_user taking any cookie for a session.
AnyCookieIsUser(cookie) == cookie # NoneId
\* get_current_user: the stored user, or None.
get_current_user(cookie) == cookie # NoneId /\ cookie \in DOMAIN SESSIONS

\* require_login returns None (the handler goes on) exactly for a user.
require_login(cookie) == get_current_user(cookie)

\* ----------------------------------------------------------------- rows
\* The row add_db_row builds from the parsed form.
build_row(form) ==
    LET new_col == strip(form_get(form, NEW_COL, <<>>))
        new_val == strip(form_get(form, NEW_VAL, <<>>))
        kept == {k \in DOMAIN form \ {NEW_COL, NEW_VAL} : strip(form[k]) # <<>>}
        row == [k \in kept |-> strip(form[k])]
    IN IF new_col # <<>> THEN (new_col :> new_val) @@ row ELSE row

\* --------------------------------------------------------------- actions
\* The state once the module is first imported, with no pages.json yet.
Init ==
    /\ up = TRUE
    /\ DATA = load_data(NoFile, 1).data
    /\ file = load_data(NoFile, 1).file
    /\ SESSIONS = <<>>
    /\ nextId = 2
    /\ last = Handled("load", 1, Template(""))
    /\ pending = {}
    /\ call = NoCall
    /\ render = NoRender

\* POST /login: supabase_login succeeds or not; on success a new session.
login_submit(email, success) ==
    /\ up
    /\ UNCHANGED <<pending, call, render>>
    /\ IF success
       THEN /\ SESSIONS' = (nextId :> [email |-> email]) @@ SESSIONS
            /\ nextId' = nextId + 1
            /\ last' = Handled("login_submit", 0, Redirect("/", nextId))
       ELSE /\ UNCHANGED <<SESSIONS, nextId>>
            /\ last' = Handled("login_submit", 0, Template("login.html"))
    /\ UNCHANGED <<up, DATA, file>>

\* GET /logout
logout(cookie) ==
    /\ up
    /\ UNCHANGED <<pending, call, render>>
    /\ SESSIONS' = IF cookie # NoneId /\ cookie \in DOMAIN SESSIONS
                   THEN [s \in DOMAIN SESSIONS \ {cookie} |-> SESSIONS[s]]
                   ELSE SESSIONS
    /\ last' = Handled("logout", 0, Redirect("/login", NoneId))
    /\ UNCHANGED <<up, DATA, file, nextId>>

\* POST /page/new
create_page(cookie, body, parent) ==
    /\ up
    /\ UNCHANGED <<pending, call, render>>
    /\ IF ~require_login(cookie)
       THEN /\ last' = Handled("create_page", 0, LoginRedirect("/page/new"))
            /\ UNCHANGED <<DATA, file, nextId>>
       ELSE LET form == parse_qs(body)
                title == form_get(form, TITLE, Untitled)
                r == add_page(DATA, nextId, title, parent)
            IN /\ DATA' = r.data
               /\ file' = save_all(file, r.saves)
               /\ nextId' = nextId + 1
               /\ last' = Handled("create_page", Len(r.saves),
                                  Redirect("/page/{id}", nextId))
    /\ UNCHANGED <<up, SESSIONS>>

\* POST /page/{page_id}/edit
edit_page(cookie, page_id, body) ==
    /\ up
    /\ UNCHANGED <<pending, call, render>>
    /\ IF ~require_login(cookie)
       THEN /\ last' = Handled("edit_page", 0,
                               LoginRedirect("/page/{id}/edit"))
            /\ UNCHANGED <<DATA, file>>
       ELSE LET form == parse_qs(body)
                title == form_get(form, TITLE, Untitled)
                content == form_get(form, CONTENT, <<>>)
                r == update_page(DATA, page_id, title, content)
            IN /\ DATA' = r.data
               /\ file' = save_all(file, r.saves)
               /\ last' = Handled("edit_page", Len(r.saves),
                                  Redirect("/page/{id}", page_id))
    /\ UNCHANGED <<up, SESSIONS, nextId>>

\* GET /page/{page_id}/delete
delete_page_route(cookie, page_id) ==
    /\ up
    /\ UNCHANGED <<pending, call, render>>
    /\ IF ~require_login(cookie)
       THEN /\ last' = Handled("delete_page_route", 0,
                               LoginRedirect("/page/{id}/delete"))
            /\ UNCHANGED <<DATA, file>>
       ELSE LET r == delete_page(DATA, page_id)
            IN /\ DATA' = r.data
               /\ file' = save_all(file, r.saves)
               /\ last' = Handled("delete_page_route", Len(r.saves),
                                  Redirect("/", NoneId))
    /\ UNCHANGED <<up, SESSIONS, nextId>>

\* add_db_row without its test `if page_id not in DATA`: DATA[page_id]
\* raises KeyError for an unknown page.
AddRowNoCheck(cookie, page_id, body) ==
    /\ up
    /\ UNCHANGED <<pending, call, render>>
    /\ IF ~require_login(cookie)
       THEN /\ last' = Handled("add_db_row", 0,
                               LoginRedirect("/page/{id}/database/add"))
            /\ UNCHANGED <<DATA, file>>
       ELSE IF page_id \notin DOMAIN DATA
       THEN /\ last' = [Handled("add_db_row", 0,
                                [Template("") EXCEPT !.status = 500])
                           EXCEPT !.raised = "KeyError"]
            /\ UNCHANGED <<DATA, file>>
       ELSE LET row == build_row(parse_qs(body))
                added == [DATA EXCEPT ![page_id].database = Append(@, row)]
            IN /\ DATA' = added
               /\ file' = save_data(file, added)
               /\ last' = Handled("add_db_row", 1,
                                  Redirect("/page/{id}/database", page_id))
    /\ UNCHANGED <<up, SESSIONS, nextId>>

\* POST /page/{page_id}/database/add
add_db_row(cookie, page_id, body) ==
    /\ up
    /\ UNCHANGED <<pending, call, render>>
    /\ IF ~require_login(cookie)
       THEN /\ last' = Handled("add_db_row", 0,
                               LoginRedirect("/page/{id}/database/add"))
            /\ UNCHANGED <<DATA, file>>
       ELSE IF page_id \notin DOMAIN DATA
       THEN /\ last' = Handled("add_db_row", 0, Redirect("/", NoneId))
            /\ UNCHANGED <<DATA, file>>
       ELSE LET row == build_row(parse_qs(body))
                added == [DATA EXCEPT ![page_id].database = Append(@, row)]
            IN /\ DATA' = added
               /\ file' = save_data(file, added)
               /\ last' = Handled("add_db_row", 1,
                                  Redirect("/page/{id}/database", page_id))
    /\ UNCHANGED <<up, SESSIONS, nextId>>

\* GET /page/{page_id}
view_page(cookie, page_id) ==
    /\ up
    /\ UNCHANGED <<pending, call, render>>
    /\ last' = Handled("view_page", 0,
                       IF page_id \notin DOMAIN DATA
                       THEN Redirect("/", NoneId)
                       ELSE Template("page.html"))
    /\ page_id \in DOMAIN DATA =>
           /\ Len(render_content(DATA[page_id].content)) >= 0
           /\ Len(get_page_tree(DATA)) >= 0
    /\ UNCHANGED <<up, DATA, file, SESSIONS, nextId>>

\* GET /search: `search_pages(q) if q else []`
search_results(q) == IF q # <<>> THEN search_pages(DATA, q) ELSE <<>>

search(cookie, q) ==
    /\ up
    /\ UNCHANGED <<pending, call, render>>
    /\ Len(search_results(q)) >= 0
    /\ Len(get_page_tree(DATA)) >= 0
    /\ last' = Handled("search", 0, Template("search.html"))
    /\ UNCHANGED <<up, DATA, file, SESSIONS, nextId>>

\* The process ends: everything held in memory is gone.
Stop ==
    /\ up
    /\ UNCHANGED <<pending, call, render>>
    /\ up' = FALSE
    /\ DATA' = <<>>
    /\ SESSIONS' = <<>>
    /\ last' = Handled("stop", 0, Template(""))
    /\ UNCHANGED <<file, nextId>>

\* While the process is down the file is removed or damaged.
FileDamaged(damaged) ==
    /\ ~up
    /\ UNCHANGED <<pending, call, render>>
    /\ file.kind = "json"
    /\ file' = damaged
    /\ UNCHANGED <<up, DATA, SESSIONS, nextId, last>>

\* The module is imported: DATA = load_data(), SESSIONS = {}.
Start ==
    /\ ~up
    /\ UNCHANGED <<pending, call, render>>
    /\ LET r == load_data(file, nextId)
       IN /\ up' = (r.raised = "none")
          /\ DATA' = r.data
          /\ file' = r.file
          /\ nextId' = IF r.fresh THEN nextId + 1 ELSE nextId
          /\ last' = [Handled("load", IF r.fresh THEN 1 ELSE 0, Template(""))
                         EXCEPT !.raised = r.raised]
    /\ SESSIONS' = <<>>

\* ------------------------------------------------- suspended handlers
\* The handlers are coroutines: `body = await request.body()` gives way to
\* the event loop until the client has sent the body, and other requests
\* are handled meanwhile.  `pending` holds what each suspended handler goes
\* on with; nothing else in a handler awaits.
Suspended(op, page_id, parent, body) ==
    [op |-> op, page_id |-> page_id, parent |-> parent, body |-> body]

\* create_page up to its await.
create_page_begin(cookie, body, parent) ==
    /\ up
    /\ IF ~require_login(cookie)
       THEN /\ last' = Handled("create_page", 0, LoginRedirect("/page/new"))
            /\ UNCHANGED pending
       ELSE /\ pending' = pending \cup
                    {Suspended("create_page", NoneId, parent, body)}
            /\ UNCHANGED last
    /\ UNCHANGED <<up, DATA, file, SESSIONS, nextId, call, render>>

\* create_page from its await on.
create_page_resume(req) ==
    /\ up
    /\ req \in pending
    /\ req.op = "create_page"
    /\ pending' = pending \ {req}
    /\ LET form == parse_qs(req.body)
           title == form_get(form, TITLE, Untitled)
           r == add_page(DATA, nextId, title, req.parent)
       IN /\ DATA' = r.data
          /\ file' = save_all(file, r.saves)
          /\ nextId' = nextId + 1
          /\ last' = Handled("create_page", Len(r.saves),
                             Redirect("/page/{id}", nextId))
    /\ UNCHANGED <<up, SESSIONS, call, render>>

\* edit_page up to its await.
edit_page_begin(cookie, page_id, body) ==
    /\ up
    /\ IF ~require_login(cookie)
       THEN /\ last' = Handled("edit_page", 0,
                               LoginRedirect("/page/{id}/edit"))
            /\ UNCHANGED pending
       ELSE /\ pending' = pending \cup
                    {Suspended("edit_page", page_id, NoneId, body)}
            /\ UNCHANGED last
    /\ UNCHANGED <<up, DATA, file, SESSIONS, nextId, call, render>>

\* edit_page from its await on.
edit_page_resume(req) ==
    /\ up
    /\ req \in pending
    /\ req.op = "edit_page"
    /\ pending' = pending \ {req}
    /\ LET form == parse_qs(req.body)
           title == form_get(form, TITLE, Untitled)
           content == form_get(form, CONTENT, <<>>)
           r == update_page(DATA, req.page_id, title, content)
       IN /\ DATA' = r.data
          /\ file' = save_all(file, r.saves)
          /\ last' = Handled("edit_page", Len(r.saves),
                             Redirect("/page/{id}", req.page_id))
    /\ UNCHANGED <<up, SESSIONS, nextId, call, render>>

\* add_db_row up to its await: the login and `if page_id not in DATA` come
\* before it.
add_db_row_begin(cookie, page_id, body) ==
    /\ up
    /\ IF ~require_login(cookie)
       THEN /\ last' = Handled("add_db_row", 0,
                               LoginRedirect("/page/{id}/database/add"))
            /\ UNCHANGED pending
       ELSE IF page_id \notin DOMAIN DATA
       THEN /\ last' = Handled("add_db_row", 0, Redirect("/", NoneId))
            /\ UNCHANGED pending
       ELSE /\ pending' = pending \cup
                    {Suspended("add_db_row", page_id, NoneId, body)}
            /\ UNCHANGED last
    /\ UNCHANGED <<up, DATA, file, SESSIONS, nextId, call, render>>

\* add_db_row from its await on: DATA[page_id] raises KeyError when the
\* page has gone meanwhile, and the server answers 500.
add_db_row_resume(req) ==
    /\ up
    /\ req \in pending
    /\ req.op = "add_db_row"
    /\ pending' = pending \ {req}
    /\ IF req.page_id \notin DOMAIN DATA
       THEN /\ last' = [Handled("add_db_row", 0,
                                [Template("") EXCEPT !.status = 500])
                           EXCEPT !.raised = "KeyError"]
            /\ UNCHANGED <<DATA, file>>
       ELSE LET row == build_row(parse_qs(req.body))
                added == [DATA EXCEPT
                             ![req.page_id].database = Append(@, row)]
            IN /\ DATA' = added
               /\ file' = save_data(file, added)
               /\ last' = Handled("add_db_row", 1,
                                  Redirect("/page/{id}/database",
                                           req.page_id))
    /\ UNCHANGED <<up, SESSIONS, nextId, call, render>>

\* ------------------------------------------------------ recursive calls
\* delete_page and build_node call themselves; `call.stack` holds a frame
\* per call that has not returned: the page and the children it has still
\* to go through.  A call made with RecursionLimit frames on the stack
\* raises RecursionError, which no frame catches.
Frame(pid) == [pid |-> pid, todo |-> DATA[pid].children]
Top == call.stack[Len(call.stack)]
Below == SubSeq(call.stack, 1, Len(call.stack) - 1)

\* delete_page_route up to its call of delete_page(page_id).
delete_page_route_begin(cookie, page_id) ==
    /\ up
    /\ call.mode = "none"
    /\ IF ~require_login(cookie)
       THEN /\ last' = Handled("delete_page_route", 0,
                               LoginRedirect("/page/{id}/delete"))
            /\ UNCHANGED call
       ELSE /\ call' = [NoCall EXCEPT
                           !.mode = "delete_page",
                           !.at = IF page_id \in DOMAIN DATA
                                  THEN "running" ELSE "returned",
                           !.start = DATA,
                           !.target = page_id,
                           !.stack = IF page_id \in DOMAIN DATA
                                     THEN <<Frame(page_id)>> ELSE <<>>]
            /\ UNCHANGED last
    /\ UNCHANGED <<up, DATA, file, SESSIONS, nextId, pending, render>>

\* `for child_id in list(...): delete_page(child_id)`: the next child is
\* called; a child that is no key returns at once.
delete_page_descend ==
    /\ call.mode = "delete_page"
    /\ call.at = "running"
    /\ Top.todo # <<>>
    /\ LET child == Head(Top.todo)
           rest == Append(Below, [Top EXCEPT !.todo = Tail(@)])
       IN call' = IF Len(call.stack) >= RecursionLimit
                  THEN [call EXCEPT !.at = "raised", !.stack = <<>>,
                                    !.error = "RecursionError"]
                  ELSE IF child \notin DOMAIN DATA
                  THEN [call EXCEPT !.stack = rest]
                  ELSE [call EXCEPT !.stack = Append(rest, Frame(child))]
    /\ UNCHANGED <<up, DATA, file, SESSIONS, nextId, last, pending, render>>

\* The loop is over: the id leaves the children lists, the page is popped,
\* DATA is saved and the call returns.
delete_page_finish ==
    /\ call.mode = "delete_page"
    /\ call.at = "running"
    /\ Top.todo = <<>>
    /\ DATA' = pop(scrub(DATA, Top.pid), Top.pid)
    /\ file' = save_data(file, DATA')
    /\ call' = [call EXCEPT
                   !.stack = Below,
                   !.at = IF Below = <<>> THEN "returned" ELSE "running",
                   !.removed = IF Top.pid \in DOMAIN DATA THEN @ + 1 ELSE @,
                   !.saved = @ + 1]
    /\ UNCHANGED <<up, SESSIONS, nextId, last, pending, render>>

\* delete_page_route after delete_page: the redirect, or the 500 the
\* server gives for the exception.
delete_page_route_end ==
    /\ call.mode = "delete_page"
    /\ call.at \in {"returned", "raised"}
    /\ last' = IF call.at = "returned"
               THEN Handled("delete_page_route", call.saved,
                            Redirect("/", NoneId))
               ELSE [Handled("delete_page_route", call.saved,
                             [Template("") EXCEPT !.status = 500])
                        EXCEPT !.raised = call.error]
    /\ call' = NoCall
    /\ UNCHANGED <<up, DATA, file, SESSIONS, nextId, pending, render>>

\* GET /: home up to the list comprehension of get_page_tree.
home_begin(cookie) ==
    /\ up
    /\ call.mode = "none"
    /\ LET all_children ==
               UNION {Range(DATA[p].children) : p \in DOMAIN DATA}
       IN call' = [NoCall EXCEPT
                      !.mode = "get_page_tree",
                      !.at = "running",
                      !.start = DATA,
                      !.roots = SortedSeq(DOMAIN DATA \ all_children)]
    /\ UNCHANGED <<up, DATA, file, SESSIONS, nextId, last, pending, render>>

\* `[build_node(pid) for pid in root_ids]`: the next root, or the return.
get_page_tree_root ==
    /\ call.mode = "get_page_tree"
    /\ call.at = "running"
    /\ call.stack = <<>>
    /\ call' = IF call.roots = <<>>
               THEN [call EXCEPT !.at = "returned"]
               ELSE [call EXCEPT !.stack = <<Frame(Head(call.roots))>>,
                                 !.roots = Tail(@)]
    /\ UNCHANGED <<up, DATA, file, SESSIONS, nextId, last, pending, render>>

\* `for cid in DATA[pid]["children"]: build_node(cid)`: DATA[cid] raises
\* KeyError for an id that is no key.
build_node_descend ==
    /\ call.mode = "get_page_tree"
    /\ call.at = "running"
    /\ call.stack # <<>>
    /\ Top.todo # <<>>
    /\ LET child == Head(Top.todo)
           rest == Append(Below, [Top EXCEPT !.todo = Tail(@)])
       IN call' = IF Len(call.stack) >= RecursionLimit
                  THEN [call EXCEPT !.at = "raised", !.stack = <<>>,
                                    !.error = "RecursionError"]
                  ELSE IF child \notin DOMAIN DATA
                  THEN [call EXCEPT !.at = "raised", !.stack = <<>>,
                                    !.error = "KeyError"]
                  ELSE [call EXCEPT !.stack = Append(rest, Frame(child))]
    /\ UNCHANGED <<up, DATA, file, SESSIONS, nextId, last, pending, render>>

\* `return node`
build_node_return ==
    /\ call.mode = "get_page_tree"
    /\ call.at = "running"
    /\ call.stack # <<>>
    /\ Top.todo = <<>>
    /\ call' = [call EXCEPT !.stack = Below, !.nodes = @ + 1]
    /\ UNCHANGED <<up, DATA, file, SESSIONS, nextId, last, pending, render>>

\* home after get_page_tree: the template, or the 500 the server gives for
\* the exception.
home_end ==
    /\ call.mode = "get_page_tree"
    /\ call.at \in {"returned", "raised"}
    /\ last' = IF call.at = "returned"
               THEN Handled("home", 0, Template("index.html"))
               ELSE [Handled("home", 0, [Template("") EXCEPT !.status = 500])
                        EXCEPT !.raised = call.error]
    /\ call' = NoCall
    /\ UNCHANGED <<up, DATA, file, SESSIONS, nextId, pending, render>>

\* ---------------------------------------------------- render_content
\* render_content is called with `raw`: in_code = False, html_parts = [].
render_call(raw) ==
    /\ render.at = "none"
    /\ render' = [at |-> "loop", lines |-> split(raw), in_code |-> FALSE,
                  html_parts |-> <<>>, result |-> <<>>]
    /\ UNCHANGED <<up, DATA, file, SESSIONS, nextId, last, pending, call>>

\* One pass of `for line in raw.split("\n")`.
render_line ==
    /\ render.at = "loop"
    /\ render.lines # <<>>
    /\ LET r == render_step(render.in_code, Head(render.lines))
       IN render' = [render EXCEPT
                        !.lines = Tail(@),
                        !.in_code = r.in_code,
                        !.html_parts = Append(@, r.part)]
    /\ UNCHANGED <<up, DATA, file, SESSIONS, nextId, last, pending, call>>

\* `return "\n".join(html_parts)`
render_return ==
    /\ render.at = "loop"
    /\ render.lines = <<>>
    /\ render' = [render EXCEPT !.at = "returned",
                                !.result = join(render.html_parts)]
    /\ UNCHANGED <<up, DATA, file, SESSIONS, nextId, last, pending, call>>

\* The caller has put the result in its template; the locals are gone.
render_used ==
    /\ render.at = "returned"
    /\ render' = NoRender
    /\ UNCHANGED <<up, DATA, file, SESSIONS, nextId, last, pending, call>>

\* ---------------------------------------------------------------- inputs
\* What a client may send.

\* Page ids a request may name: any uuid issued so far, or one never issued.
RequestIds == (1..(nextId - 1)) \cup {NeverIssued}
\* The ids of the pages there are, and one that is no page's.
PageIds == DOMAIN DATA \cup {NeverIssued}
\* The session_id cookie: none, or a uuid that is not a page's.
Cookies == {NoneId} \cup (RequestIds \ DOMAIN DATA)
\* The cookies of a request that has no session: no cookie, a uuid that
\* never was a session id, the id of a session since logged out.
NoSession == Cookies \ DOMAIN SESSIONS

PageBodies == {(TITLE :> <<>>), (TITLE :> <<" ">>)}
EditBodies ==
    { (TITLE :> <<>>) @@ (CONTENT :> <<>>),
      (TITLE :> <<" ">>) @@ (CONTENT :> <<>>),
      (TITLE :> <<"a">>) @@ (CONTENT :> <<"a", " ">>),
      (TITLE :> <<" ", "a">>) @@ (CONTENT :> <<"a", " ">>) }
RowBodies ==
    { (Status :> <<"x">>),
      (Status :> <<" ">>) @@ (NEW_COL :> Owner) @@ (NEW_VAL :> <<>>) }
QueryInputs == {<<>>, <<"A">>}
Emails == {<<"d">>}

\* The body sent along with a request that has no session.
SomePageBody == (TITLE :> <<" ">>)
SomeEditBody == (TITLE :> <<"a">>) @@ (CONTENT :> <<"a", " ">>)
SomeRowBody == (Status :> <<"x">>)

TotalRows(data) ==
    LET RECURSIVE Sum(_)
        Sum(S) == IF S = {} THEN 0
                  ELSE LET p == CHOOSE x \in S : TRUE
                       IN Len(data[p].database) + Sum(S \ {p})
    IN Sum(DOMAIN data)

\* The run may issue one more uuid, or store one more row: the suspended
\* requests that will do so count as having done it.
MayCreate ==
    (nextId - 1) + TotalRows(DATA)
        + Cardinality({r \in pending : r.op # "edit_page"}) < MaxIds

\* ------------------------------------------------------- specifications
\* Logging in and out.
Sessions ==
    \/ \E e \in Emails :
           /\ MayCreate
           /\ Cardinality(DOMAIN SESSIONS) < MaxSessions
           /\ login_submit(e, TRUE)
    \/ \E e \in Emails : login_submit(e, FALSE)
    \/ \E c \in Cookies : logout(c)

\* Requests to the mutating routes that carry no session.
Refused ==
    \/ \E c \in NoSession : create_page(c, SomePageBody, NoneId)
    \/ \E c \in NoSession, id \in PageIds : edit_page(c, id, SomeEditBody)
    \/ \E c \in NoSession, id \in PageIds : delete_page_route(c, id)
    \/ \E c \in NoSession, id \in PageIds : add_db_row(c, id, SomeRowBody)

\* Requests to the mutating routes that carry a session.
Mutations ==
    \/ \E c \in DOMAIN SESSIONS, b \in PageBodies,
          p \in RequestIds \cup {NoneId} :
           MayCreate /\ create_page(c, b, p)
    \/ \E c \in DOMAIN SESSIONS, id \in RequestIds, b \in EditBodies :
           edit_page(c, id, b)
    \/ \E c \in DOMAIN SESSIONS, id \in RequestIds : delete_page_route(c, id)
    \/ \E c \in DOMAIN SESSIONS, id \in RequestIds, b \in RowBodies :
           /\ id \in DOMAIN DATA => MayCreate
           /\ add_db_row(c, id, b)

\* Requests to the reading routes, with a session or with no cookie.
Reads ==
    \/ \E c \in {NoneId} \cup DOMAIN SESSIONS, id \in PageIds :
           view_page(c, id)
    \/ \E c \in {NoneId} \cup DOMAIN SESSIONS, q \in QueryInputs :
           search(c, q)

\* The server handling one request after the other.
Next == Sessions \/ Refused \/ Mutations \/ Reads

Spec == Init /\ [][Next]_vars

\* The same server, stopped and started again at any time, its file removed
\* or damaged while it is down.
NextLoad ==
    \/ Sessions
    \/ Mutations
    \/ Stop
    \/ \E d \in {NoFile, BadJson, BadUtf8} : FileDamaged(d)
    \/ (load_data(file, nextId).fresh => MayCreate) /\ Start

SpecLoad == Init /\ [][NextLoad]_vars

\* One more handler may be suspended.
MayBegin == Cardinality(pending) < MaxInFlight

\* The server with requests in flight: a handler suspended at its await
\* goes on at any later time, other requests being handled in between.
NextAsync ==
    \/ \E e \in Emails :
           /\ MayCreate
           /\ Cardinality(DOMAIN SESSIONS) < MaxSessions
           /\ login_submit(e, TRUE)
    \/ \E c \in Cookies : logout(c)
    \/ \E c \in {NoneId} \cup DOMAIN SESSIONS, p \in PageIds \cup {NoneId} :
           /\ c \in DOMAIN SESSIONS => MayBegin /\ MayCreate
           /\ create_page_begin(c, SomePageBody, p)
    \/ \E req \in pending : create_page_resume(req)
    \/ \E c \in {NoneId} \cup DOMAIN SESSIONS, id \in PageIds :
           /\ c \in DOMAIN SESSIONS => MayBegin
           /\ edit_page_begin(c, id, SomeEditBody)
    \/ \E req \in pending : edit_page_resume(req)
    \/ \E c \in {NoneId} \cup DOMAIN SESSIONS, id \in PageIds :
           /\ c \in DOMAIN SESSIONS /\ id \in DOMAIN DATA =>
                  MayBegin /\ MayCreate
           /\ add_db_row_begin(c, id, SomeRowBody)
    \/ \E req \in pending : add_db_row_resume(req)
    \/ \E c \in DOMAIN SESSIONS, id \in PageIds : delete_page_route(c, id)

SpecAsync == Init /\ [][NextAsync]_vars

\* The server with the calls of delete_page and get_page_tree taken frame
\* by frame; a handler runs whole before the next request.
NextRec ==
    \/ \E e \in Emails :
           /\ call.mode = "none"
           /\ MayCreate
           /\ Cardinality(DOMAIN SESSIONS) < MaxSessions
           /\ login_submit(e, TRUE)
    \/ \E c \in DOMAIN SESSIONS, p \in PageIds \cup {NoneId} :
           /\ call.mode = "none"
           /\ MayCreate
           /\ create_page(c, SomePageBody, p)
    \/ \E c \in {NoneId} \cup DOMAIN SESSIONS, id \in PageIds :
           delete_page_route_begin(c, id)
    \/ delete_page_descend
    \/ delete_page_finish
    \/ delete_page_route_end
    \/ \E c \in {NoneId} \cup DOMAIN SESSIONS : home_begin(c)
    \/ get_page_tree_root
    \/ build_node_descend
    \/ build_node_return
    \/ home_end

SpecRec == Init /\ [][NextRec]_vars

\* Page content: up to MaxLines of these lines, joined by newlines.
Lines ==
    { <<>>,
      Backticks,
      Backticks \o <<"p">>,
      <<" ">> \o Backticks,
      Unchecked \o <<"a">>,
      CheckedLower \o <<"<">>,
      CheckedUpper \o <<"a">>,
      <<"-", " ", "[", " ", "]">>,
      <<"a">> }
RawInputs ==
    {join(ls) : ls \in UNION {[1..n -> Lines] : n \in 1..MaxLines}}

\* render_content called on any content, one call after the other.
NextRender ==
    \/ \E raw \in RawInputs : render_call(raw)
    \/ render_line
    \/ render_return
    \/ render_used

SpecRender == Init /\ [][NextRender]_vars

\* --------------------------------------------------------------- claims
\* Every value a request may carry as a page id or as a cookie.
AnyId == 0..NeverIssued

\* The handlers that change the workspace.
Mutating == {"create_page", "edit_page", "delete_page_route", "add_db_row"}

\* x and everything reachable from it through children lists.
Subtree(data, x) ==
    LET RECURSIVE Grow(_)
        Grow(S) ==
            LET T == S \cup UNION {Range(data[p].children) :
                                       p \in S \cap DOMAIN data}
            IN IF T = S THEN S ELSE Grow(T)
    IN Grow({x})

\* C1: after every add and every delete, each id in a page's children list
\* is the id of a page of the workspace.
C1_NoDanglingChild ==
    \A p \in DOMAIN DATA :
        \A i \in 1..Len(DATA[p].children) : DATA[p].children[i] \in DOMAIN DATA

\* A page was deleted and a page that still lists children remains.
C1_Witness ==
    /\ last.op = "delete_page_route"
    /\ last.saves >= 1
    /\ \E p \in DOMAIN DATA : DATA[p].children # <<>>

\* C2: deleting a known page x removes exactly x and the pages reachable
\* from x through children, takes x out of every children list it was in,
\* and leaves every other page as it was.
C2_DeleteRemovesSubtree ==
    [][last'.op = "delete_page_route" =>
        \A c \in DOMAIN SESSIONS, x \in DOMAIN DATA :
            delete_page_route(c, x) =>
                /\ DOMAIN DATA' = DOMAIN DATA \ Subtree(DATA, x)
                /\ \A p \in DOMAIN DATA' :
                       /\ x \notin Range(DATA'[p].children)
                       /\ DATA'[p] =
                              [DATA[p] EXCEPT !.children =
                                   SelectSeq(@, LAMBDA k : k # x)]]_vars

\* A page went together with at least one descendant, and a page survives.
C2_Witness ==
    /\ last.op = "delete_page_route"
    /\ last.saves >= 2
    /\ DOMAIN DATA # {}

\* C3: adding a page answers with an id no page had, whose page has empty
\* content, no children and no rows; the id is put at the end of the
\* parent's children exactly when the parent is a page; with an unknown or
\* no parent the page is in no children list, and the answer is the same
\* redirect to the new page, not an error.  No other page changes.
C3_AddPage ==
    [][last'.op = "create_page" =>
        \A c \in DOMAIN SESSIONS, b \in PageBodies, p \in AnyId :
            create_page(c, b, p) =>
                LET n == last'.resp.id
                IN /\ n \notin DOMAIN DATA
                   /\ DOMAIN DATA' = DOMAIN DATA \cup {n}
                   /\ DATA'[n].content = <<>>
                   /\ DATA'[n].children = <<>>
                   /\ DATA'[n].database = <<>>
                   /\ last'.raised = "none"
                   /\ last'.resp = Redirect("/page/{id}", n)
                   /\ \A q \in DOMAIN DATA :
                          DATA'[q] = IF q = p
                                     THEN [DATA[q] EXCEPT !.children =
                                               Append(@, n)]
                                     ELSE DATA[q]
                   /\ p \notin DOMAIN DATA =>
                          \A q \in DOMAIN DATA' :
                              n \notin Range(DATA'[q].children)]_vars

\* A page was added under a parent that already had a child: it is the last
\* of at least two.
C3_Witness ==
    /\ last.op = "create_page"
    /\ last.saves = 1
    /\ \E q \in DOMAIN DATA :
           /\ Len(DATA[q].children) >= 2
           /\ DATA[q].children[Len(DATA[q].children)] = last.resp.id

\* C4: updating or deleting an id that is no page changes neither the
\* workspace nor the file, saves nothing and answers as usual.
C4_UnknownIdNoOp ==
    [][last'.op \in {"edit_page", "delete_page_route"} =>
        \A c \in DOMAIN SESSIONS, x \in RequestIds \ DOMAIN DATA :
            (\/ /\ last'.resp.id = x
                /\ \E b \in EditBodies : edit_page(c, x, b)
             \/ delete_page_route(c, x)) =>
                /\ DATA' = DATA
                /\ file' = file
                /\ last'.saves = 0
                /\ last'.raised = "none"
                /\ last'.resp.status = 302]_vars

\* A logged-in edit of an id that is no page was answered.
C4_Witness ==
    /\ last.op = "edit_page"
    /\ last.resp = Redirect("/page/{id}", last.resp.id)
    /\ last.resp.id \notin DOMAIN DATA
    /\ SESSIONS # <<>>

\* C5 as stated: updating a known page stores the title as supplied, or the
\* placeholder when the supplied title is empty or only whitespace, and the
\* content as supplied; nothing else changes; no page has an empty title.
C5_TitleAsSupplied ==
    [][/\ last'.op = "edit_page" =>
           \A c \in DOMAIN SESSIONS, x \in DOMAIN DATA, b \in EditBodies :
               (last'.resp.id = x /\ edit_page(c, x, b)) =>
                   /\ DATA' = [DATA EXCEPT
                          ![x].title = IF strip(b[TITLE]) = <<>>
                                       THEN Untitled ELSE b[TITLE],
                          ![x].content = b[CONTENT]]
       /\ last'.op \in {"create_page", "edit_page"} =>
              \A p \in DOMAIN DATA' : DATA'[p].title # <<>>]_vars

\* C5: updating a known page stores the supplied title without its leading
\* and trailing whitespace, or the placeholder when nothing is left of it,
\* and the content as supplied; nothing else changes; no page has an empty
\* title.
C5_TitleStripped ==
    [][/\ last'.op = "edit_page" =>
           \A c \in DOMAIN SESSIONS, x \in DOMAIN DATA, b \in EditBodies :
               (last'.resp.id = x /\ edit_page(c, x, b)) =>
                   /\ DATA' = [DATA EXCEPT
                          ![x].title = IF strip(b[TITLE]) = <<>>
                                       THEN Untitled ELSE strip(b[TITLE]),
                          ![x].content = b[CONTENT]]
       /\ last'.op \in {"create_page", "edit_page"} =>
              \A p \in DOMAIN DATA' : DATA'[p].title # <<>>]_vars

\* A page was updated and holds a one-letter title, which only a supplied
\* title with or without whitespace around it leaves.
C5_Witness ==
    /\ last.op = "edit_page"
    /\ last.saves = 1
    /\ last.resp.id \in DOMAIN DATA
    /\ DATA[last.resp.id].title = <<"a">>
    /\ DATA[last.resp.id].content = <<"a", " ">>

\* C6: while the server runs, between requests, the file parses to the
\* workspace held in memory.
C6_PersistedIsMemory ==
    up => /\ file.kind = "json"
          /\ json_load(file.doc) = DATA

\* A known page was updated and saved, in a workspace of several pages.
C6_Witness ==
    /\ up
    /\ last.op = "edit_page"
    /\ last.saves = 1
    /\ Len(file.doc) >= 2

\* C7 as stated: no stored row has a cell that is the empty string.
C7_NoEmptyCell ==
    \A p \in DOMAIN DATA :
        \A i \in 1..Len(DATA[p].database) :
            \A k \in DOMAIN DATA[p].database[i] :
                DATA[p].database[i][k] # <<>>

\* An answer that reports an error.
IsError(l) == l.raised # "none" \/ l.resp.status >= 400

Refusal(path) ==
    /\ UNCHANGED <<DATA, file>>
    /\ last'.resp = LoginRedirect(path)

\* C9: a request to a mutating route whose cookie is not a session id now
\* in SESSIONS changes neither the workspace nor the file and is sent to
\* the login page (each step of a mutating handler is such a refusal, or is
\* the step of no request with such a cookie); the workspace changes only
\* in a mutating request made while SESSIONS holds a session; viewing and
\* searching with such a cookie are answered like any other.
C9_MutationNeedsSession ==
    [][/\ last'.op = "create_page" =>
           \/ Refusal("/page/new")
           \/ \A c \in NoSession, p \in PageIds \cup {NoneId} :
                  ~create_page(c, SomePageBody, p)
       /\ last'.op = "edit_page" =>
           \/ Refusal("/page/{id}/edit")
           \/ \A c \in NoSession, x \in PageIds :
                  ~edit_page(c, x, SomeEditBody)
       /\ last'.op = "delete_page_route" =>
           \/ Refusal("/page/{id}/delete")
           \/ \A c \in NoSession, x \in PageIds : ~delete_page_route(c, x)
       /\ last'.op = "add_db_row" =>
           \/ Refusal("/page/{id}/database/add")
           \/ \A c \in NoSession, x \in PageIds :
                  ~add_db_row(c, x, SomeRowBody)
       /\ <<DATA, file>>' # <<DATA, file>> =>
              /\ last'.op \in Mutating
              /\ SESSIONS # <<>>
       /\ last'.op = "view_page" =>
           \A c \in NoSession, x \in PageIds :
               (last'.resp.status = (IF x \in DOMAIN DATA THEN 200 ELSE 302))
               \/ ~view_page(c, x)
       /\ last'.op = "search" =>
           \/ last'.resp = Template("search.html")
           \/ \A c \in NoSession, q \in QueryInputs : ~search(c, q)]_vars

\* A session was opened and closed, pages exist, and a mutating request
\* was sent to the login page.
C9_Witness ==
    /\ last.op \in Mutating
    /\ last.resp.path = "/login"
    /\ last.resp.next # ""
    /\ SESSIONS = <<>>
    /\ nextId > 2

\* C10 as stated: loading never raises; a file that is absent or cannot be
\* read as JSON gives a workspace of one default root, saved at once; a file
\* that parses gives its workspace and is left as it is.
C10_LoadNeverRaises ==
    [][Start =>
        /\ last'.raised = "none"
        /\ up'
        /\ IF file.kind = "json"
           THEN /\ DATA' = json_load(file.doc)
                /\ file' = file
           ELSE /\ DATA' = DefaultData(nextId)
                /\ file' = save_data(file, DATA')]_vars

\* The pages that occur in no children list.
Roots(data) ==
    {p \in DOMAIN data :
        \A q \in DOMAIN data : p \notin Range(data[q].children)}

\* Every node of a forest, at any depth.
RECURSIVE NodesOf(_)
NodesOf(forest) ==
    UNION {{forest[i]} \cup NodesOf(forest[i].children) :
               i \in 1..Len(forest)}

\* The ids of a forest's nodes, one entry per node, parents first.
RECURSIVE NodeIds(_)
NodeIds(forest) ==
    IF forest = <<>> THEN <<>>
    ELSE <<forest[1].id>> \o NodeIds(forest[1].children)
             \o NodeIds(Tail(forest))

\* What C11 says of the forest of a workspace.
C11_Shape ==
    LET forest == get_page_tree(DATA)
    IN /\ Len(forest) = Cardinality(Roots(DATA))
       /\ {forest[i].id : i \in 1..Len(forest)} = Roots(DATA)
       /\ \A node \in NodesOf(forest) :
              /\ node.id \in DOMAIN DATA
              /\ [j \in 1..Len(node.children) |-> node.children[j].id]
                     = DATA[node.id].children

\* C11: in every workspace the requests lead to, get_page_tree returns one
\* tree per page that is in no children list, the children of each node are
\* the page's children in stored order, every node's id is a key of DATA;
\* and the requests that only build the tree leave DATA and the file alone.
C11_BuildForest ==
    /\ []C11_Shape
    /\ [][last'.op \in {"search", "view_page"} =>
              UNCHANGED <<DATA, file>>]_vars

\* The tree was built for a workspace of two roots, one of them a parent.
C11_Witness ==
    /\ last.op = "search"
    /\ Len(get_page_tree(DATA)) >= 2
    /\ \E i \in 1..Len(get_page_tree(DATA)) :
           get_page_tree(DATA)[i].children # <<>>

\* C13: every snapshot a delete writes, those written after each descendant
\* is removed included, parses to a workspace in which every id of a
\* children list is a key.
C13_SnapshotsNoDangling ==
    [][last'.op = "delete_page_route" =>
        \A c \in DOMAIN SESSIONS, x \in DOMAIN DATA :
            delete_page_route(c, x) =>
                LET saves == delete_page(DATA, x).saves
                IN /\ Len(saves) = last'.saves
                   /\ file' = save_all(file, saves)
                   /\ \A i \in 1..Len(saves) :
                          LET snap == json_load(save_data(file, saves[i]).doc)
                          IN \A p \in DOMAIN snap :
                                 Range(snap[p].children) \subseteq
                                     DOMAIN snap]_vars

\* A page went with a child and a grandchild: three snapshots were written.
C13_Witness ==
    /\ last.op = "delete_page_route"
    /\ last.saves >= 3

\* C15: the children links form a forest: a page id occurs at most once in
\* all the children lists together, no page is its own descendant, and
\* every page is exactly one node of get_page_tree's result.
C15_Forest ==
    /\ \A p \in DOMAIN DATA :
           Cardinality({<<q, i>> \in (DOMAIN DATA) \X (1..MaxIds) :
                            /\ i <= Len(DATA[q].children)
                            /\ DATA[q].children[i] = p}) <= 1
    /\ \A p \in DOMAIN DATA :
           p \notin UNION {Subtree(DATA, k) : k \in Range(DATA[p].children)}
    /\ LET ids == NodeIds(get_page_tree(DATA))
       IN /\ Len(ids) = Cardinality(DOMAIN DATA)
          /\ Range(ids) = DOMAIN DATA

\* A page was added under a page that itself has a parent.
C15_Witness ==
    /\ last.op = "create_page"
    /\ \E p \in DOMAIN DATA, q \in DOMAIN DATA :
           /\ p \in Range(DATA[q].children)
           /\ last.resp.id \in Range(DATA[p].children)

\* A line that is nothing but a fence, whitespace around it aside.
SolelyFence(line) == strip(line) = Backticks

\* A line whose first characters, whitespace aside, are a fence.
BeginsWithFence(line) == startswith(strip(line), Backticks)

\* What one pass of the loop does to `line`, given which lines are fences:
\* a fence toggles in_code and emits a container mark, nothing of the line;
\* any other line leaves in_code alone and emits one part: inside a code
\* block the escaped line, outside it a check box for check list syntax and
\* a paragraph otherwise.
C12_Pass(IsFence(_)) ==
    LET line == Head(render.lines)
        part == render'.html_parts[Len(render'.html_parts)]
        text == after(line, Unchecked)
    IN /\ render'.lines = Tail(render.lines)
       /\ render'.html_parts = Append(render.html_parts, part)
       /\ render'.in_code = (IF IsFence(line) THEN ~render.in_code
                             ELSE render.in_code)
       /\ IsFence(line) => part \in {<<"<pre><code>">>, <<"</code></pre>">>}
       /\ ~IsFence(line) /\ render.in_code =>
              part = html_escape(line) \o <<"\n">>
       /\ ~IsFence(line) /\ ~render.in_code =>
              part = IF startswith(line, Unchecked)
                     THEN <<"<label><input type=\"checkbox\" disabled> ">>
                              \o html_escape(text) \o <<"</label><br>">>
                     ELSE IF \/ startswith(line, CheckedLower)
                             \/ startswith(line, CheckedUpper)
                     THEN <<"<label><input type=\"checkbox\" checked disabled> ">>
                              \o html_escape(text) \o <<"</label><br>">>
                     ELSE <<"<p>">> \o html_escape(line) \o <<"</p>">>

\* C12 as stated: in_code starts false on every call and is toggled exactly
\* by the lines that are solely a fence; every other line is emitted as the
\* claim says.
C12_SolelyFenceToggles ==
    [][/\ render_line => C12_Pass(SolelyFence)
       /\ render'.at = "loop" /\ render.at = "none" =>
              ~render'.in_code]_vars

\* C12: render_content goes over the lines once with one boolean in_code,
\* false at the start of every call; in_code is toggled exactly by the lines
\* that begin with a fence once the whitespace around them is stripped,
\* whatever follows the fence, and those lines emit only the container
\* mark; every other line inside a code block is emitted escaped, check
\* list syntax or not; every other line outside is one check box (unchecked
\* for "- [ ] text", checked for "- [x] text" and "- [X] text") or else one
\* paragraph.
C12_FencePrefixToggles ==
    [][/\ render_line => C12_Pass(BeginsWithFence)
       /\ render'.at = "loop" /\ render.at = "none" =>
              ~render'.in_code]_vars

\* A call returned whose content was a fence, a line of check list syntax
\* and a fence: the line was emitted escaped between the container marks.
C12_Witness ==
    /\ render.at = "returned"
    /\ render.html_parts =
           << <<"<pre><code>">>,
              html_escape(CheckedLower \o <<"<">>) \o <<"\n">>,
              <<"</code></pre>">> >>

\* C14 as stated: with requests in flight, what a handler checked before
\* its await still holds when it goes on: an add-row that resumes finds its
\* page among the keys of DATA, writes the row and raises nothing.
C14_RowWriteFindsPage ==
    [][\A req \in pending :
           add_db_row_resume(req) =>
               /\ req.page_id \in DOMAIN DATA
               /\ last'.raised = "none"]_vars

\* C16 as stated: on every workspace the requests lead to, the calls of
\* delete_page and of get_page_tree return, none is ended by an exception;
\* delete_page(x) has then popped one page and saved once for each page of
\* x's subtree, and get_page_tree has built one node for each page.
C16_RecursionReturns ==
    /\ call.at # "raised"
    /\ call.mode = "delete_page" /\ call.at = "returned" =>
           /\ call.removed =
                  Cardinality(Subtree(call.start, call.target)
                                  \cap DOMAIN call.start)
           /\ call.saved = call.removed
    /\ call.mode = "get_page_tree" /\ call.at = "returned" =>
           call.nodes = Cardinality(DOMAIN call.start)

=============================================================================
